---- MODULE Spec2Model ----
(***************************************************************************)
(* Model of the release parser of discogs-load (src/release.rs) and of the *)
(* bulk writer it flushes to (src/db.rs, write_releases).                  *)
(*                                                                         *)
(* ReleasesParser::process is one step of the state machine: it consumes   *)
(* one XML event, updates the parser's fields and may call write_releases. *)
(* The events come from a well-formed document (an element is closed by    *)
(* its own closing tag), which the variable xml_open keeps track of.       *)
(***************************************************************************)
EXTENDS Integers, Sequences, FiniteSets, TLC

\* ------------------------------------------------------------------ bounds
MaxReleases == 3    \* release elements of one document
MaxBatch == 2       \* largest configured batch size
MaxFields == 1      \* tags below release in a document of releases with fields
MaxRecReleases == 2 \* release elements of one document with sub-records
MaxTags == 5        \* tags below release in a document with sub-records
MaxUnknownTags == 4 \* tags below release in a document with unknown elements
MaxSubReleases == 2 \* release elements of one document of labels, videos and formats
MaxSubTags == 4     \* tags below release in a document of labels, videos and formats
MaxListReleases == 2 \* release elements of one document of genres and styles
MaxListTags == 4    \* tags below release in a document of genres and styles
MaxStateTags == 4   \* tags below release in a document of every known element
MaxErrorTags == 3   \* tags below release in a document with texts that do not convert
MaxNestTags == 6    \* tags below release in a document of tracks with sub-tracks
MaxEatenTags == 4   \* tags below release in a document of containers that are eaten

\* --------------------------------------------------------- program constants
I32Max == 2147483647

\* ------------------------------------------------------------------- texts
\* The characters of every text the documents use.  A text is a TLA+ string;
\* parsing and unescaping work on its characters.
Chars(s) ==
    CASE s = ""           -> <<>>
      [] s = "1"          -> <<"1">>
      [] s = "2"          -> <<"2">>
      [] s = "3"          -> <<"3">>
      [] s = "7"          -> <<"7">>
      [] s = "123"        -> <<"1", "2", "3">>
      [] s = "abc"        -> <<"a", "b", "c">>
      [] s = "Accepted"   -> <<"A", "c", "c", "e", "p", "t", "e", "d">>
      [] s = "Draft"      -> <<"D", "r", "a", "f", "t">>
      [] s = "Test Album" -> <<"T", "e", "s", "t", " ", "A", "l", "b", "u", "m">>
      [] s = "Rock"       -> <<"R", "o", "c", "k">>
      [] s = "Jazz"       -> <<"J", "a", "z", "z">>
      [] s = "Intro"      -> <<"I", "n", "t", "r", "o">>
      [] s = "A1"         -> <<"A", "1">>
      [] s = "1:30"       -> <<"1", ":", "3", "0">>
      [] s = "Vinyl"      -> <<"V", "i", "n", "y", "l">>
      [] s = "LP"         -> <<"L", "P">>
      [] s = "R&B"        -> <<"R", "&", "B">>
      [] s = "R&amp;B"    -> <<"R", "&", "a", "m", "p", ";", "B">>
      [] s = "&bad;"      -> <<"&", "b", "a", "d", ";">>

\* Every text of the documents and of the parsed records.
Texts ==
    {"", "1", "2", "3", "7", "123", "abc", "Accepted", "Draft", "Test Album",
     "Rock", "Jazz", "Intro", "A1", "1:30", "Vinyl", "LP", "R&B", "R&amp;B", "&bad;"}

\* The text with the characters cs.
FromChars(cs) == CHOOSE s \in Texts : Chars(s) = cs

\* The index of the first c in cs, 0 when there is none.
IndexOf(cs, c) ==
    IF \E i \in DOMAIN cs : cs[i] = c
    THEN CHOOSE i \in DOMAIN cs : cs[i] = c /\ \A j \in 1..(i - 1) : cs[j] # c
    ELSE 0

\* The character a predefined entity stands for, "" for any other name.
EntityChar(name) ==
    CASE name = <<"a", "m", "p">> -> "&"
      [] name = <<"l", "t">> -> "<"
      [] name = <<"g", "t">> -> ">"
      [] name = <<"q", "u", "o", "t">> -> "\""
      [] name = <<"a", "p", "o", "s">> -> "'"
      [] OTHER -> ""

RECURSIVE UnescapeChars(_)
\* quick_xml's unescape on characters: every &name; becomes its character; an
\* unknown name or an & without a closing ; is an error.
UnescapeChars(cs) ==
    IF cs = <<>> THEN [ok |-> TRUE, val |-> <<>>]
    ELSE IF Head(cs) # "&"
    THEN LET r == UnescapeChars(Tail(cs))
         IN [ok |-> r.ok, val |-> <<Head(cs)>> \o r.val]
    ELSE LET semi == IndexOf(Tail(cs), ";")
         IN IF semi = 0 THEN [ok |-> FALSE, val |-> <<>>]
            ELSE LET c == EntityChar(SubSeq(Tail(cs), 1, semi - 1))
                     r == UnescapeChars(SubSeq(Tail(cs), semi + 1, Len(cs) - 1))
                 IN IF c = "" THEN [ok |-> FALSE, val |-> <<>>]
                    ELSE [ok |-> r.ok, val |-> <<c>> \o r.val]

\* BytesText::unescaped and Attribute::unescaped_value.
Unescape(s) ==
    LET r == UnescapeChars(Chars(s))
    IN IF r.ok THEN [ok |-> TRUE, val |-> FromChars(r.val)] ELSE [ok |-> FALSE, val |-> ""]

DigitValue(c) ==
    CASE c = "0" -> 0 [] c = "1" -> 1 [] c = "2" -> 2 [] c = "3" -> 3
      [] c = "4" -> 4 [] c = "5" -> 5 [] c = "6" -> 6 [] c = "7" -> 7
      [] c = "8" -> 8 [] c = "9" -> 9 [] OTHER -> -1

RECURSIVE DigitsValue(_, _, _)
\* The value of a sequence of decimal digits after the prefix value acc, or -1
\* when a character is no digit or the value exceeds limit.
DigitsValue(cs, acc, limit) ==
    IF cs = <<>> THEN acc
    ELSE IF DigitValue(Head(cs)) < 0 THEN -1
    ELSE IF acc * 10 + DigitValue(Head(cs)) > limit THEN -1
    ELSE DigitsValue(Tail(cs), acc * 10 + DigitValue(Head(cs)), limit)

\* str::parse::<i32>: an optional sign, then at least one digit, nothing else;
\* a value outside the range of an i32 is an error.
ParseI32(s) ==
    LET cs == Chars(s)
        neg == cs # <<>> /\ Head(cs) = "-"
        body == IF cs # <<>> /\ Head(cs) \in {"+", "-"} THEN Tail(cs) ELSE cs
        v == IF body = <<>> THEN -1
             ELSE DigitsValue(body, 0, IF neg THEN I32Max + 1 ELSE I32Max)
    IN IF v < 0 THEN [ok |-> FALSE, val |-> 0]
       ELSE [ok |-> TRUE, val |-> IF neg THEN 0 - v ELSE v]

\* str::parse::<String> copies the text and cannot fail.
ParseString(s) == [ok |-> TRUE, val |-> s]

\* unescape, then str::parse::<String>.
UnescapedString(s) ==
    LET u == Unescape(s) IN IF u.ok THEN ParseString(u.val) ELSE u

\* unescape, then str::parse::<i32>.
UnescapedI32(s) ==
    LET u == Unescape(s) IN IF u.ok THEN ParseI32(u.val) ELSE [ok |-> FALSE, val |-> 0]

\* ----------------------------------------------------------------- records
Release_new(id) ==
    [id |-> id, status |-> "", title |-> "", country |-> "", released |-> "",
     notes |-> "", genres |-> <<>>, styles |-> <<>>, master_id |-> 0,
     data_quality |-> ""]

Track_new(release_id) ==
    [position |-> "", title |-> "", duration |-> "", release_id |-> release_id]

Format_new(release_id, name, qty, text) ==
    [name |-> name, qty |-> qty, text |-> text, release_id |-> release_id]

\* ------------------------------------------------------------------- maps
\* A HashMap or BTreeMap is a function from its keys to its values.
EmptyMap == <<>>

MapLen(m) == Cardinality(DOMAIN m)

\* map.insert(k, v): the value of k is v, whether or not k was present.
insert(m, k, v) == [x \in (DOMAIN m) \cup {k} |-> IF x = k THEN v ELSE m[x]]

\* or_insert as an insert that replaces the value of a present key.
or_insert_replacing(m, k, v) ==
    [x \in (DOMAIN m) \cup {k} |-> IF x = k THEN v ELSE m[x]]

\* map.entry(k).or_insert(v): a present key keeps its value.
or_insert(m, k, v) == IF k \in DOMAIN m THEN m ELSE insert(m, k, v)

\* All orders in which the keys in S can be visited.
Orders(S) ==
    {o \in [1..Cardinality(S) -> S] : \A i, j \in DOMAIN o : i # j => o[i] # o[j]}

\* The keys in descending order.
BTreeOrderDescending(m) ==
    CHOOSE o \in Orders(DOMAIN m) : \A i, j \in DOMAIN o : i < j => o[i] > o[j]

\* BTreeMap::values visits the keys in ascending order.
BTreeOrder(m) == CHOOSE o \in Orders(DOMAIN m) : \A i, j \in DOMAIN o : i < j => o[i] < o[j]

\* HashMap::values visits the keys in an order the hasher decides: any order.
HashOrders(m) == Orders(DOMAIN m)

\* The values of m in the order o of its keys.
ValuesIn(m, o) == [i \in DOMAIN o |-> m[o[i]]]

\* ------------------------------------------------------------------ events
\* An event of quick_xml: Start, End, Empty and Text, and Other for the kinds
\* process has no arm for (Comment, CData, Decl, PI, DocType, Eof).  attrs is
\* the attribute list of the tag in document order.
Attr(key, value) == [key |-> key, value |-> value]

Start(name, attrs) == [kind |-> "Start", name |-> name, attrs |-> attrs, text |-> ""]

Empty(name, attrs) == [kind |-> "Empty", name |-> name, attrs |-> attrs, text |-> ""]

End(name) == [kind |-> "End", name |-> name, attrs |-> <<>>, text |-> ""]

Text(text) == [kind |-> "Text", name |-> "", attrs |-> <<>>, text |-> text]

Other == [kind |-> "Other", name |-> "", attrs |-> <<>>, text |-> ""]

\* e.attributes().nth(n), n counted from 0; unwrap panics on a missing attribute.
HasAttr(e, n) == Len(e.attrs) > n

AttrNth(e, n) == e.attrs[n + 1].value

\* e.attributes().find(|a| a.key == key): the first attribute named key.
HasKey(e, key) == \E i \in DOMAIN e.attrs : e.attrs[i].key = key

AttrFind(e, key) ==
    e.attrs[CHOOSE i \in DOMAIN e.attrs :
                /\ e.attrs[i].key = key
                /\ \A j \in 1..(i - 1) : e.attrs[j].key # key].value

\* ------------------------------------------------------------ bulk writer
\* SqlSerialization::to_sql: the columns of a row, in the order of the table.
Release_to_sql(r) ==
    <<r.id, r.status, r.title, r.country, r.released, r.notes, r.genres, r.styles,
      r.master_id, r.data_quality>>

ReleaseLabel_to_sql(l) == <<l.release_id, l.label, l.catno, l.label_id>>

ReleaseVideo_to_sql(v) == <<v.release_id, v.duration, v.src, v.title>>

Track_to_sql(t) == <<t.release_id, t.title, t.position, t.duration>>

Format_to_sql(f) == <<f.release_id, f.name, f.qty, f.text>>

\* The tables of one flush, in the order write_releases writes them.
Tables == <<"release", "release_label", "release_video", "track", "format">>

NoRows == [t \in {Tables[i] : i \in DOMAIN Tables} |-> <<>>]

\* The values write_releases gives to table, in the order it writes them.
TableValues(call, table) ==
    CASE table = "release" -> call.release
      [] table = "release_label" -> call.release_label
      [] table = "release_video" -> call.release_video
      [] table = "track" -> call.track
      [] table = "format" -> call.format

\* How a call that has committed its first n tables can end.  With all five
\* committed it returns Ok.  Otherwise the connection, the copy_in or the
\* finish of table n + 1 has failed and `?` returns the error, or the write of
\* a row of table n + 1 has failed and its unwrap panics, which takes a row.
CanEnd(call) ==
    CASE call.result = "Ok" -> call.committed = Len(Tables)
      [] call.result = "Err" -> call.committed < Len(Tables)
      [] call.result = "Panic" ->
            /\ call.committed < Len(Tables)
            /\ TableValues(call, Tables[call.committed + 1]) # <<>>

\* write_releases: what one call can do.  Each table is written from the values
\* of its container in iteration order and committed by itself; committed is the
\* number of tables written and committed when the call ends and result is how
\* it ends.
write_releases(releases_, releases_labels, releases_videos, tracks_, formats_) ==
    {call \in
        {[release |-> ValuesIn(releases_, ro),
          release_label |-> ValuesIn(releases_labels, lo),
          release_video |-> ValuesIn(releases_videos, vo),
          track |-> ValuesIn(tracks_, BTreeOrder(tracks_)),
          format |-> ValuesIn(formats_, BTreeOrder(formats_)),
          committed |-> c, result |-> r] :
            ro \in HashOrders(releases_), lo \in HashOrders(releases_labels),
            vo \in HashOrders(releases_videos), c \in 0..Len(Tables),
            r \in {"Ok", "Err", "Panic"}} : CanEnd(call)}

\* Whether a call of write_releases returned Ok.
WriteOk(call) == call.result = "Ok"

\* What process returns, or does, when write_releases(...)? has not returned Ok.
WriteFailure(call) == IF call.result = "Panic" THEN "Panic" ELSE "WriteError"

\* The rows one call has sent to a table (to_sql of each value).
SqlRows(call, table) ==
    CASE table = "release" -> [i \in DOMAIN call.release |-> Release_to_sql(call.release[i])]
      [] table = "release_label" ->
            [i \in DOMAIN call.release_label |-> ReleaseLabel_to_sql(call.release_label[i])]
      [] table = "release_video" ->
            [i \in DOMAIN call.release_video |-> ReleaseVideo_to_sql(call.release_video[i])]
      [] table = "track" -> [i \in DOMAIN call.track |-> Track_to_sql(call.track[i])]
      [] table = "format" -> [i \in DOMAIN call.format |-> Format_to_sql(call.format[i])]

\* The database after a call: the tables the call committed have its rows.
Commit(database, call) ==
    [t \in DOMAIN database |->
        IF \E i \in 1..call.committed : Tables[i] = t
        THEN database[t] \o SqlRows(call, t)
        ELSE database[t]]

\* ----------------------------------------------------------------- parser
\* What one call of process can do: the parser afterwards, the value returned
\* ("Ok", "ConversionError" for a failed unescape or parse, "WriteError" for
\* an error of write_releases, "Panic" for an unwrap of a missing attribute or
\* of a failed write of a row, which does not return) and the calls of
\* write_releases made.
Outcome(p, ret, written) == [self |-> p, ret |-> ret, written |-> written]

\* Ok(()) with the state field assigned.
Goto(self, st) == {Outcome([self EXCEPT !.state = st], "Ok", <<>>)}

\* An early return through `?`: self.state is not assigned.
Fail(self) == {Outcome(self, "ConversionError", <<>>)}

Panic(self) == {Outcome(self, "Panic", <<>>)}

\* The flush test with > in place of >=.
FlushDuePast(len, batch_size_) == len > batch_size_

\* if self.releases.len() >= self.db_opts.batch_size
FlushDue(len, batch_size_) == len >= batch_size_

\* A clearing that forgets the releases.
ClearBatchKeepingReleases(self) ==
    [self EXCEPT !.release_labels = EmptyMap, !.release_videos = EmptyMap,
                 !.tracks = EmptyMap, !.formats = EmptyMap]

\* A clearing that forgets the tracks.
ClearBatchKeepingTracks(self) ==
    [self EXCEPT !.releases = EmptyMap, !.release_labels = EmptyMap,
                 !.release_videos = EmptyMap, !.formats = EmptyMap]

\* A clearing that also resets the counters of the sub-records.
ClearBatchAndCounters(self) ==
    [self EXCEPT !.releases = EmptyMap, !.release_labels = EmptyMap,
                 !.release_videos = EmptyMap, !.tracks = EmptyMap,
                 !.formats = EmptyMap, !.current_track_id = 0,
                 !.current_format_id = 0, !.current_video_id = 0]

\* The batch containers after a flush at the batch size.
ClearBatch(self) ==
    [self EXCEPT !.releases = EmptyMap, !.release_labels = EmptyMap,
                 !.release_videos = EmptyMap, !.tracks = EmptyMap,
                 !.formats = EmptyMap]

\* The calls of write_releases on the containers of self.
WriteBatch(self) ==
    write_releases(self.releases, self.release_labels, self.release_videos,
                   self.tracks, self.formats)

\* Event::Start(e) if e.local_name() == b"release": the first attribute is the
\* id, the second the status.  current_id and current_release are assigned
\* before the status is read.
StartRelease(self, e) ==
    IF ~HasAttr(e, 0) THEN Panic(self)
    ELSE LET id == UnescapedI32(AttrNth(e, 0))
             s1 == [self EXCEPT !.current_id = id.val,
                                !.current_release = Release_new(id.val)]
         IN IF ~id.ok THEN Fail(self)
            ELSE IF ~HasAttr(e, 1) THEN Panic(s1)
            ELSE LET status == UnescapedString(AttrNth(e, 1))
                 IN IF ~status.ok THEN Fail(s1)
                    ELSE Goto([s1 EXCEPT !.current_release.status = status.val],
                              "Release")

\* Event::Start(e) => match e.local_name(): the state of a child of release.
ChildState(name) ==
    CASE name = "title" -> "Title"
      [] name = "country" -> "Country"
      [] name = "released" -> "Released"
      [] name = "notes" -> "Notes"
      [] name = "genres" -> "Genres"
      [] name = "styles" -> "Styles"
      [] name = "master_id" -> "MasterId"
      [] name = "data_quality" -> "DataQuality"
      [] name = "labels" -> "Labels"
      [] name = "videos" -> "Videos"
      [] name = "tracklist" -> "TrackList"
      [] name = "images" -> "Images"
      [] name = "artists" -> "Artists"
      [] name = "extraartists" -> "ExtraArtists"
      [] name = "formats" -> "Formats"
      [] name = "identifiers" -> "Identifiers"
      [] name = "companies" -> "Companies"
      [] OTHER -> "Release"

\* A closing tag of release that clears the batch before it knows whether the
\* flush has succeeded.
EndReleaseClearingOnFailure(self, batch_size_) ==
    LET s1 == [self EXCEPT
                  !.releases = or_insert(@, self.current_id, self.current_release)]
    IN IF FlushDue(MapLen(s1.releases), batch_size_)
       THEN {IF WriteOk(c)
             THEN Outcome([ClearBatch(s1) EXCEPT !.pb = @ + 1, !.state = "Release"],
                          "Ok", <<c>>)
             ELSE Outcome(ClearBatch(s1), WriteFailure(c), <<c>>) : c \in WriteBatch(s1)}
       ELSE Goto([s1 EXCEPT !.pb = @ + 1], "Release")

\* A closing tag of release that counts the release only when it does not flush.
EndReleaseCountingUnflushed(self, batch_size_) ==
    LET s1 == [self EXCEPT
                  !.releases = or_insert(@, self.current_id, self.current_release)]
    IN IF FlushDue(MapLen(s1.releases), batch_size_)
       THEN {IF WriteOk(c)
             THEN Outcome([ClearBatch(s1) EXCEPT !.state = "Release"], "Ok", <<c>>)
             ELSE Outcome(s1, WriteFailure(c), <<c>>) : c \in WriteBatch(s1)}
       ELSE Goto([s1 EXCEPT !.pb = @ + 1], "Release")

\* Event::End(e) if e.local_name() == b"release": insert the current release
\* if its id is absent, flush and clear at the batch size, count the release.
\* An error of write_releases returns before anything is cleared or counted.
EndRelease(self, batch_size_) ==
    LET s1 == [self EXCEPT
                  !.releases = or_insert(@, self.current_id, self.current_release)]
    IN IF FlushDue(MapLen(s1.releases), batch_size_)
       THEN {IF WriteOk(c)
             THEN Outcome([ClearBatch(s1) EXCEPT !.pb = @ + 1, !.state = "Release"],
                          "Ok", <<c>>)
             ELSE Outcome(s1, WriteFailure(c), <<c>>) : c \in WriteBatch(s1)}
       ELSE Goto([s1 EXCEPT !.pb = @ + 1], "Release")

\* A final flush that is skipped when no release is left.
EndReleasesUnlessEmpty(self) ==
    IF self.releases = EmptyMap THEN {Outcome([self EXCEPT !.state = "Release"], "Ok", <<>>)}
    ELSE {IF c.result = "Ok"
          THEN Outcome([self EXCEPT !.state = "Release"], "Ok", <<c>>)
          ELSE Outcome(self, IF c.result = "Panic" THEN "Panic" ELSE "WriteError", <<c>>) :
              c \in write_releases(self.releases, self.release_labels,
                                   self.release_videos, self.tracks, self.formats)}

\* Event::End(e) if e.local_name() == b"releases": write the remainder; the
\* containers are left as they are.
EndReleases(self) ==
    {IF WriteOk(c)
     THEN Outcome([self EXCEPT !.state = "Release"], "Ok", <<c>>)
     ELSE Outcome(self, WriteFailure(c), <<c>>) : c \in WriteBatch(self)}

\* ParserReadState::Release
InRelease(self, e, batch_size_) ==
    CASE e.kind = "Start" /\ e.name = "release" -> StartRelease(self, e)
      [] e.kind = "Start" /\ e.name # "release" -> Goto(self, ChildState(e.name))
      [] e.kind = "End" /\ e.name = "release" -> EndRelease(self, batch_size_)
      [] e.kind = "End" /\ e.name = "releases" -> EndReleases(self)
      [] OTHER -> Goto(self, "Release")

\* ParserReadState::TrackList
InTrackList(self, e) ==
    CASE e.kind = "Start" /\ e.name = "track" -> Goto(self, "Track")
      [] e.kind = "Start" /\ e.name # "track" -> Goto(self, "TrackList")
      [] e.kind = "End" /\ e.name = "tracklist" -> Goto(self, "Release")
      [] OTHER -> Goto(self, "TrackList")

\* ParserReadState::Track: the closing tag counts the track.
InTrack(self, e) ==
    CASE e.kind = "Start" /\ e.name = "title" -> Goto(self, "TrackTitle")
      [] e.kind = "Start" /\ e.name = "position" -> Goto(self, "TrackPosition")
      [] e.kind = "Start" /\ e.name = "duration" -> Goto(self, "TrackDuration")
      [] e.kind = "Start" /\ e.name \notin {"title", "position", "duration"} ->
            Goto(self, "Track")
      [] e.kind = "End" /\ e.name = "track" ->
            Goto([self EXCEPT !.current_track_id = @ + 1], "TrackList")
      [] OTHER -> Goto(self, "Track")

\* self.tracks.entry(self.current_track_id).or_insert(Track::new(self.current_id))
TrackEntry(self) ==
    [self EXCEPT !.tracks = or_insert(@, self.current_track_id,
                                      Track_new(self.current_id))]

\* A text in a child of track that is unescaped before the entry is made.
TrackTextParsingFirst(self, e, field, st) ==
    LET t == UnescapedString(e.text)
        s1 == [self EXCEPT !.tracks = or_insert(@, self.current_track_id,
                                                Track_new(self.current_id))]
    IN IF ~t.ok THEN {Outcome(self, "ConversionError", <<>>)}
       ELSE {Outcome([s1 EXCEPT !.tracks[self.current_track_id][field] = t.val,
                                !.state = st], "Ok", <<>>)}

\* A text in a child of track: the entry of the current track is made before
\* the text is unescaped, so it stays when the unescape fails.
TrackText(self, e, field, st) ==
    LET s1 == TrackEntry(self)
        t == UnescapedString(e.text)
    IN IF ~t.ok THEN Fail(s1)
       ELSE Goto([s1 EXCEPT !.tracks[self.current_track_id][field] = t.val], st)

\* ParserReadState::TrackTitle
InTrackTitle(self, e) ==
    CASE e.kind = "Text" -> TrackText(self, e, "title", "TrackTitle")
      [] e.kind = "End" /\ e.name = "title" -> Goto(self, "Track")
      [] OTHER -> Goto(self, "TrackTitle")

\* ParserReadState::TrackPosition
InTrackPosition(self, e) ==
    CASE e.kind = "Text" -> TrackText(self, e, "position", "TrackPosition")
      [] e.kind = "End" /\ e.name = "position" -> Goto(self, "Track")
      [] OTHER -> Goto(self, "TrackPosition")

\* ParserReadState::TrackDuration
InTrackDuration(self, e) ==
    CASE e.kind = "Text" -> TrackText(self, e, "duration", "TrackDuration")
      [] e.kind = "End" /\ e.name = "duration" -> Goto(self, "Track")
      [] OTHER -> Goto(self, "TrackDuration")

\* An eating state that goes to the state of an element it knows.
InEatenDispatching(self, e, elem, st) ==
    IF e.kind = "End" /\ e.name = elem
    THEN {Outcome([self EXCEPT !.state = "Release"], "Ok", <<>>)}
    ELSE IF e.kind = "Start" /\ ChildState(e.name) # "Release"
    THEN {Outcome([self EXCEPT !.state = ChildState(e.name)], "Ok", <<>>)}
    ELSE {Outcome([self EXCEPT !.state = st], "Ok", <<>>)}

\* An eating state that any closing tag ends.
InEatenUntilAnyEnd(self, e, elem, st) ==
    IF e.kind = "End" THEN {Outcome([self EXCEPT !.state = "Release"], "Ok", <<>>)}
    ELSE {Outcome([self EXCEPT !.state = st], "Ok", <<>>)}

\* ParserReadState::Companies, Identifiers, Artists, ExtraArtists and Images:
\* everything up to the closing tag named elem is eaten.
InEaten(self, e, elem, st) ==
    IF e.kind = "End" /\ e.name = elem THEN Goto(self, "Release") ELSE Goto(self, st)

\* The value of the attribute named key as the format arm reads it: the raw
\* value (not unescaped), the empty string when the attribute is absent.
FormatAttr(e, key) == IF HasKey(e, key) THEN ParseString(AttrFind(e, key)).val ELSE ""

\* ParserReadState::Formats: an opening format tag stores a Format under the
\* current format key, replacing what is there.
InFormats(self, e) ==
    CASE e.kind = "Start" /\ e.name = "format" ->
            Goto([self EXCEPT !.formats =
                      insert(@, self.current_format_id,
                             Format_new(self.current_id, FormatAttr(e, "name"),
                                        FormatAttr(e, "qty"), FormatAttr(e, "text")))],
                 "Format")
      [] e.kind = "End" /\ e.name = "formats" -> Goto(self, "Release")
      [] OTHER -> Goto(self, "Formats")

\* ParserReadState::Format: the closing tag counts the format.
InFormat(self, e) ==
    CASE e.kind = "End" /\ e.name = "format" ->
            Goto([self EXCEPT !.current_format_id = @ + 1], "Formats")
      [] OTHER -> Goto(self, "Format")

\* A text that is also written to the record stored under the current id, as
\* if the accumulator shared the record with current_release.
ReleaseTextWritingThrough(self, e, field, st) ==
    LET t == UnescapedString(e.text)
    IN IF ~t.ok THEN {Outcome(self, "ConversionError", <<>>)}
       ELSE {Outcome([self EXCEPT
                         !.current_release[field] = t.val,
                         !.releases = [k \in DOMAIN @ |->
                                          IF k = self.current_id
                                          THEN [@[k] EXCEPT ![field] = t.val]
                                          ELSE @[k]],
                         !.state = st], "Ok", <<>>)}

\* A text in a text child of release: the field of current_release is assigned.
ReleaseText(self, e, field, st) ==
    LET t == UnescapedString(e.text)
    IN IF ~t.ok THEN Fail(self)
       ELSE Goto([self EXCEPT !.current_release[field] = t.val], st)

\* ParserReadState::Title
InTitle(self, e) ==
    CASE e.kind = "Text" -> ReleaseText(self, e, "title", "Title")
      [] e.kind = "End" /\ e.name = "title" -> Goto(self, "Release")
      [] OTHER -> Goto(self, "Title")

\* ParserReadState::Country
InCountry(self, e) ==
    CASE e.kind = "Text" -> ReleaseText(self, e, "country", "Country")
      [] e.kind = "End" /\ e.name = "country" -> Goto(self, "Release")
      [] OTHER -> Goto(self, "Country")

\* ParserReadState::Released
InReleased(self, e) ==
    CASE e.kind = "Text" -> ReleaseText(self, e, "released", "Released")
      [] e.kind = "End" /\ e.name = "released" -> Goto(self, "Release")
      [] OTHER -> Goto(self, "Released")

\* ParserReadState::Notes
InNotes(self, e) ==
    CASE e.kind = "Text" -> ReleaseText(self, e, "notes", "Notes")
      [] e.kind = "End" /\ e.name = "notes" -> Goto(self, "Release")
      [] OTHER -> Goto(self, "Notes")

\* ParserReadState::DataQuality
InDataQuality(self, e) ==
    CASE e.kind = "Text" -> ReleaseText(self, e, "data_quality", "DataQuality")
      [] e.kind = "End" /\ e.name = "data_quality" -> Goto(self, "Release")
      [] OTHER -> Goto(self, "DataQuality")

\* A master_id arm that keeps 0 for a text that is no number.
InMasterIdLenient(self, e) ==
    CASE e.kind = "Text" ->
            LET n == UnescapedI32(e.text)
            IN {Outcome([self EXCEPT !.current_release.master_id = n.val], "Ok", <<>>)}
      [] e.kind = "End" /\ e.name = "master_id" ->
            {Outcome([self EXCEPT !.state = "Release"], "Ok", <<>>)}
      [] OTHER -> {Outcome(self, "Ok", <<>>)}

\* ParserReadState::MasterId: the text must parse as an i32.
InMasterId(self, e) ==
    CASE e.kind = "Text" ->
            LET n == UnescapedI32(e.text)
            IN IF ~n.ok THEN Fail(self)
               ELSE Goto([self EXCEPT !.current_release.master_id = n.val], "MasterId")
      [] e.kind = "End" /\ e.name = "master_id" -> Goto(self, "Release")
      [] OTHER -> Goto(self, "MasterId")

\* A list text that is put in front of the list.
ListTextPrepending(self, e, field, st) ==
    LET t == UnescapedString(e.text)
    IN IF ~t.ok THEN {Outcome(self, "ConversionError", <<>>)}
       ELSE {Outcome([self EXCEPT !.current_release[field] = <<t.val>> \o @,
                                  !.state = st], "Ok", <<>>)}

\* A list text that is left out when the list has it.
ListTextDeduplicating(self, e, field, st) ==
    LET t == UnescapedString(e.text)
    IN IF ~t.ok THEN {Outcome(self, "ConversionError", <<>>)}
       ELSE IF \E i \in DOMAIN self.current_release[field] :
                  self.current_release[field][i] = t.val
       THEN {Outcome([self EXCEPT !.state = st], "Ok", <<>>)}
       ELSE {Outcome([self EXCEPT !.current_release[field] = Append(@, t.val),
                                  !.state = st], "Ok", <<>>)}

\* A text in a genre or style: Vec::extend appends it at the end of the list.
ListText(self, e, field, st) ==
    LET t == UnescapedString(e.text)
    IN IF ~t.ok THEN Fail(self)
       ELSE Goto([self EXCEPT !.current_release[field] = Append(@, t.val)], st)

\* ParserReadState::Genres
InGenres(self, e) ==
    CASE e.kind = "Start" /\ e.name = "genre" -> Goto(self, "Genre")
      [] e.kind = "End" /\ e.name = "genres" -> Goto(self, "Release")
      [] OTHER -> Goto(self, "Genres")

\* ParserReadState::Genre
InGenre(self, e) ==
    CASE e.kind = "Text" -> ListText(self, e, "genres", "Genre")
      [] e.kind = "End" /\ e.name = "genre" -> Goto(self, "Genres")
      [] OTHER -> Goto(self, "Genre")

\* ParserReadState::Styles
InStyles(self, e) ==
    CASE e.kind = "Start" /\ e.name = "style" -> Goto(self, "Style")
      [] e.kind = "End" /\ e.name = "styles" -> Goto(self, "Release")
      [] OTHER -> Goto(self, "Styles")

\* ParserReadState::Style
InStyle(self, e) ==
    CASE e.kind = "Text" -> ListText(self, e, "styles", "Style")
      [] e.kind = "End" /\ e.name = "style" -> Goto(self, "Styles")
      [] OTHER -> Goto(self, "Style")

\* ParserReadState::Labels: every empty-element tag is a label; its attributes
\* are read by position (label name, catno, id) and the record is stored under
\* the label id unless that id is present.
InLabels(self, e) ==
    CASE e.kind = "Empty" ->
            IF ~HasAttr(e, 2) THEN Panic(self)
            ELSE LET label_id == UnescapedI32(AttrNth(e, 2))
                     label == UnescapedString(AttrNth(e, 0))
                     catno == UnescapedString(AttrNth(e, 1))
                 IN IF ~label_id.ok \/ ~label.ok \/ ~catno.ok THEN Fail(self)
                    ELSE Goto([self EXCEPT !.release_labels =
                                   or_insert(@, label_id.val,
                                             [release_id |-> self.current_release.id,
                                              label |-> label.val,
                                              catno |-> catno.val,
                                              label_id |-> label_id.val])],
                              "Labels")
      [] e.kind = "End" /\ e.name = "labels" -> Goto(self, "Release")
      [] OTHER -> Goto(self, "Labels")

\* A videos arm that keeps 0 for a duration that is no number.
InVideosLenient(self, e) ==
    CASE e.kind = "Start" /\ e.name = "video" ->
            IF ~HasAttr(e, 1) THEN Panic(self)
            ELSE LET duration == UnescapedI32(AttrNth(e, 1))
                     src == UnescapedString(AttrNth(e, 0))
                 IN IF ~src.ok THEN Fail(self)
                    ELSE Goto([self EXCEPT
                                  !.release_videos =
                                      or_insert(@, self.current_video_id,
                                                [release_id |-> self.current_release.id,
                                                 duration |-> duration.val,
                                                 src |-> src.val,
                                                 title |-> ""]),
                                  !.current_video_id = @ + 1],
                              "Videos")
      [] e.kind = "End" /\ e.name = "videos" -> Goto(self, "Release")
      [] OTHER -> Goto(self, "Videos")

\* ParserReadState::Videos: an opening video tag stores a video under the
\* current video key (src first, duration second attribute) and counts it.
InVideos(self, e) ==
    CASE e.kind = "Start" /\ e.name = "video" ->
            IF ~HasAttr(e, 1) THEN Panic(self)
            ELSE LET duration == UnescapedI32(AttrNth(e, 1))
                     src == UnescapedString(AttrNth(e, 0))
                 IN IF ~duration.ok \/ ~src.ok THEN Fail(self)
                    ELSE Goto([self EXCEPT
                                  !.release_videos =
                                      or_insert(@, self.current_video_id,
                                                [release_id |-> self.current_release.id,
                                                 duration |-> duration.val,
                                                 src |-> src.val,
                                                 title |-> ""]),
                                  !.current_video_id = @ + 1],
                              "Videos")
      [] e.kind = "End" /\ e.name = "videos" -> Goto(self, "Release")
      [] OTHER -> Goto(self, "Videos")

\* ReleasesParser::process: the arm of the current state.
process(self, e, batch_size_) ==
    CASE self.state = "Release" -> InRelease(self, e, batch_size_)
      [] self.state = "TrackList" -> InTrackList(self, e)
      [] self.state = "Track" -> InTrack(self, e)
      [] self.state = "TrackTitle" -> InTrackTitle(self, e)
      [] self.state = "TrackPosition" -> InTrackPosition(self, e)
      [] self.state = "TrackDuration" -> InTrackDuration(self, e)
      [] self.state = "Companies" -> InEaten(self, e, "companies", "Companies")
      [] self.state = "Identifiers" -> InEaten(self, e, "identifiers", "Identifiers")
      [] self.state = "Artists" -> InEaten(self, e, "artists", "Artists")
      [] self.state = "ExtraArtists" -> InEaten(self, e, "extraartists", "ExtraArtists")
      [] self.state = "Images" -> InEaten(self, e, "images", "Images")
      [] self.state = "Formats" -> InFormats(self, e)
      [] self.state = "Format" -> InFormat(self, e)
      [] self.state = "Title" -> InTitle(self, e)
      [] self.state = "Country" -> InCountry(self, e)
      [] self.state = "Released" -> InReleased(self, e)
      [] self.state = "Notes" -> InNotes(self, e)
      [] self.state = "Genres" -> InGenres(self, e)
      [] self.state = "Genre" -> InGenre(self, e)
      [] self.state = "Styles" -> InStyles(self, e)
      [] self.state = "Style" -> InStyle(self, e)
      [] self.state = "MasterId" -> InMasterId(self, e)
      [] self.state = "DataQuality" -> InDataQuality(self, e)
      [] self.state = "Labels" -> InLabels(self, e)
      [] self.state = "Videos" -> InVideos(self, e)

\* ------------------------------------------------------------------ state
VARIABLES
    state,              \* ReleasesParser.state
    releases,           \* ReleasesParser.releases: HashMap<i32, Release>
    current_release,    \* ReleasesParser.current_release
    current_id,         \* ReleasesParser.current_id
    release_labels,     \* ReleasesParser.release_labels: HashMap<i32, ReleaseLabel>
    current_video_id,   \* ReleasesParser.current_video_id
    release_videos,     \* ReleasesParser.release_videos: HashMap<i32, ReleaseVideo>
    current_track_id,   \* ReleasesParser.current_track_id
    tracks,             \* ReleasesParser.tracks: BTreeMap<i32, Track>
    current_format_id,  \* ReleasesParser.current_format_id
    formats,            \* ReleasesParser.formats: BTreeMap<i32, Format>
    pb,                 \* ReleasesParser.pb: the position of the progress bar
    batch_size,         \* DbOpt.batch_size
    calls,              \* the calls of write_releases so far, oldest first
    db,                 \* the rows committed to each table
    ret,                \* what the last call of process returned
    ev,                 \* the last event given to process
    xml_open,           \* the elements of the document that are open, outermost first
    xml_done,           \* the root element of the document is closed
    xml_count,          \* the tags below release the document has had so far
    closed,             \* current_release at each closing tag of a release element
    call_at,            \* how much of the document each call of write_releases had behind it
    doc_tracks,         \* the track elements of the document so far, in document order
    around_unknown,     \* the parser before the outermost unknown element, and where it is
    doc_subs,           \* the label, video and format tags of the document so far
    doc_lists,          \* the genre and style texts of the open release element
    doc_keys,           \* the track elements of the document and the track keys they wrote to
    grammar,            \* the documents the event source reads in this run
    script              \* the events still to come when the document is a fixed one

parser_vars ==
    <<state, releases, current_release, current_id, release_labels, current_video_id,
      release_videos, current_track_id, tracks, current_format_id, formats, pb>>

source_vars == <<xml_open, xml_done, xml_count, grammar, script>>

history_vars ==
    <<closed, call_at, doc_tracks, around_unknown, doc_subs, doc_lists, doc_keys>>

vars == <<parser_vars, batch_size, calls, db, ret, ev, history_vars, source_vars>>

\* The ReleasesParser as one value.
Self ==
    [state |-> state, releases |-> releases, current_release |-> current_release,
     current_id |-> current_id, release_labels |-> release_labels,
     current_video_id |-> current_video_id, release_videos |-> release_videos,
     current_track_id |-> current_track_id, tracks |-> tracks,
     current_format_id |-> current_format_id, formats |-> formats, pb |-> pb]

\* ReleasesParser::new
ParserInit ==
    /\ state = "Release"
    /\ releases = EmptyMap
    /\ current_release = Release_new(0)
    /\ current_id = 0
    /\ release_labels = EmptyMap
    /\ current_video_id = 0
    /\ release_videos = EmptyMap
    /\ current_track_id = 0
    /\ tracks = EmptyMap
    /\ current_format_id = 0
    /\ formats = EmptyMap
    /\ pb = 0

\* ------------------------------------------------------------ event source
\* The events come from a reader over a well-formed document whose root is
\* releases: a closing tag closes the innermost open element, a text is
\* followed by a tag, and nothing follows the closing tag of the root.
\* A grammar says which documents a run reads: the children of release it
\* offers, the attribute lists of the tags, the texts, whether elements the
\* parser does not know (foo) occur, whether the run keeps the tags of the
\* sub-records in doc_subs, and how large the document is.
Top == IF xml_open = <<>> THEN "" ELSE xml_open[Len(xml_open)]

\* Elements whose content is text.
TextElements ==
    {"title", "country", "released", "notes", "data_quality", "master_id", "genre",
     "style", "position", "duration", "foo"}

ReleaseTags(g) ==
    {Start("release", <<Attr("id", i), Attr("status", s)>>) :
        i \in g.ids, s \in g.statuses}

\* The containers of a release whose content the parser skips.
EatenElements == {"images", "artists", "extraartists", "identifiers", "companies"}

\* The tags a document of grammar g can have next inside the element top.
ChildTags(g, top) ==
    CASE top = "release" -> {Start(c, <<>>) : c \in g.children}
      [] top \in EatenElements -> {Start(c, <<>>) : c \in g.nested}
                                     \cup {Empty("label", a) : a \in g.labels}
      [] top = "genres" -> {Start("genre", <<>>)}
      [] top = "styles" -> {Start("style", <<>>)}
      [] top = "tracklist" -> {Start("track", <<>>)}
      [] top = "track" -> {Start(c, <<>>) : c \in g.track_children}
      [] top = "sub_tracks" -> {Start("track", <<>>)}
      [] top = "formats" -> {Start("format", a) : a \in g.formats}
                               \cup {Empty("format", a) : a \in g.empty_formats}
      [] top = "labels" -> {Empty("label", a) : a \in g.labels}
      [] top = "videos" -> {Start("video", a) : a \in g.videos}
      [] top = "foo" -> {Start(c, <<>>) : c \in g.nested}
      [] OTHER -> {}

\* The events the source can deliver next.
NextEvents ==
    IF grammar.scripted THEN (IF script = <<>> THEN {} ELSE {Head(script)})
    ELSE IF xml_done THEN {}
    ELSE IF xml_open = <<>> THEN {Start("releases", <<>>)}
    ELSE {End(Top)}
         \cup (IF Top = "releases" /\ Len(closed) < grammar.max_releases
               THEN ReleaseTags(grammar) ELSE {})
         \cup (IF Top # "releases" /\ xml_count < grammar.max_tags
               THEN ChildTags(grammar, Top)
                    \cup (IF grammar.unknown THEN {Start("foo", <<>>)} ELSE {})
               ELSE {})
         \cup (IF Top \in TextElements /\ ev.kind # "Text"
               THEN {Text(t) : t \in grammar.texts} ELSE {})

\* The open elements after event e.
Opened(open, e) ==
    CASE e.kind = "Start" -> Append(open, e.name)
      [] e.kind = "End" -> SubSeq(open, 1, Len(open) - 1)
      [] OTHER -> open

\* Whether e is a tag the size of the document counts.
Counted(e) == e.kind \in {"Start", "Empty"} /\ e.name \notin {"releases", "release"}

\* Documents of releases with a title or a master_id: what the batching sees.
BatchGrammar ==
    [scripted |-> FALSE, unknown |-> FALSE, subs |-> FALSE,
     ids |-> {"1", "2", "3"}, statuses |-> {"Accepted"},
     children |-> {"title", "master_id"}, track_children |-> {},
     formats |-> {}, empty_formats |-> {}, labels |-> {}, videos |-> {},
     nested |-> {}, texts |-> {"7", "abc"},
     max_releases |-> MaxReleases, max_tags |-> MaxFields]

\* Documents of releases with sub-records: labels, videos, tracks and formats.
RecordGrammar ==
    [scripted |-> FALSE, unknown |-> FALSE, subs |-> FALSE,
     ids |-> {"1", "2"}, statuses |-> {"Accepted"},
     children |-> {"labels", "videos", "tracklist", "formats"},
     track_children |-> {"title", "position"},
     formats |-> {<<Attr("name", "Vinyl"), Attr("qty", "1"), Attr("text", "LP")>>},
     empty_formats |-> {},
     labels |-> {<<Attr("name", "abc"), Attr("catno", "7"), Attr("id", "3")>>},
     videos |-> {<<Attr("src", "abc"), Attr("duration", "7")>>},
     nested |-> {}, texts |-> {"Intro", "A1"},
     max_releases |-> MaxRecReleases, max_tags |-> MaxTags]

\* Documents of one release in which elements the parser does not know (foo)
\* occur, with a text or a title inside.
UnknownGrammar ==
    [scripted |-> FALSE, unknown |-> TRUE, subs |-> FALSE,
     ids |-> {"1"}, statuses |-> {"Accepted"},
     children |-> {"title", "tracklist"}, track_children |-> {"title"},
     formats |-> {}, empty_formats |-> {}, labels |-> {}, videos |-> {},
     nested |-> {"title"}, texts |-> {"7", "abc"},
     max_releases |-> 1, max_tags |-> MaxUnknownTags]

\* Documents of releases with labels, videos and formats as the dumps and
\* their faults have them: a label that comes twice, a label without catno, a
\* format without qty and text, a format as an empty-element tag, and an id or
\* a duration that is no number.
SubGrammar ==
    [scripted |-> FALSE, unknown |-> FALSE, subs |-> TRUE,
     ids |-> {"1", "2", "abc"}, statuses |-> {"Accepted"},
     children |-> {"labels", "videos", "formats"}, track_children |-> {},
     formats |-> {<<Attr("name", "Vinyl"), Attr("qty", "1"), Attr("text", "LP")>>,
                  <<Attr("name", "LP")>>},
     empty_formats |-> {<<Attr("name", "Vinyl"), Attr("qty", "1"), Attr("text", "LP")>>},
     labels |-> {<<Attr("name", "abc"), Attr("catno", "7"), Attr("id", "3")>>,
                 <<Attr("name", "abc"), Attr("id", "3")>>,
                 <<Attr("name", "abc"), Attr("catno", "7"), Attr("id", "abc")>>},
     videos |-> {<<Attr("src", "abc"), Attr("duration", "7")>>,
                 <<Attr("src", "abc"), Attr("duration", "abc")>>},
     nested |-> {}, texts |-> {},
     max_releases |-> MaxSubReleases, max_tags |-> MaxSubTags]

\* Documents of releases with genres and styles, with a text that comes more
\* than once and a text with an entity.
ListGrammar ==
    [scripted |-> FALSE, unknown |-> FALSE, subs |-> FALSE,
     ids |-> {"1", "2"}, statuses |-> {"Accepted"},
     children |-> {"genres", "styles"}, track_children |-> {},
     formats |-> {}, empty_formats |-> {}, labels |-> {}, videos |-> {},
     nested |-> {}, texts |-> {"Rock", "R&amp;B"},
     max_releases |-> MaxListReleases, max_tags |-> MaxListTags]

\* Documents of one release with every child element the parser has a state
\* for, each with elements the parser does not know (foo) inside.
StateGrammar ==
    [scripted |-> FALSE, unknown |-> TRUE, subs |-> FALSE,
     ids |-> {"1"}, statuses |-> {"Accepted"},
     children |-> {"title", "country", "released", "notes", "genres", "styles",
                   "master_id", "data_quality", "labels", "videos", "tracklist",
                   "images", "artists", "extraartists", "formats", "identifiers",
                   "companies"},
     track_children |-> {"title", "position", "duration"},
     formats |-> {<<Attr("name", "Vinyl"), Attr("qty", "1"), Attr("text", "LP")>>},
     empty_formats |-> {}, labels |-> {}, videos |-> {},
     nested |-> {}, texts |-> {"7"},
     max_releases |-> 1, max_tags |-> MaxStateTags]

\* Documents of one release with a title and the containers the parser skips,
\* which have elements inside that the parser knows elsewhere: a title, a
\* track with a title, a format, a label tag, and texts.
EatenGrammar ==
    [scripted |-> FALSE, unknown |-> FALSE, subs |-> FALSE,
     ids |-> {"1"}, statuses |-> {"Accepted"},
     children |-> {"title"} \cup EatenElements, track_children |-> {"title"},
     formats |-> {}, empty_formats |-> {},
     labels |-> {<<Attr("name", "abc"), Attr("catno", "7"), Attr("id", "3")>>},
     videos |-> {}, nested |-> {"title", "track", "format"}, texts |-> {"7"},
     max_releases |-> 1, max_tags |-> MaxEatenTags]

\* Documents of one release in which every conversion can fail: an id, a
\* master_id, a label id and a video duration that are no numbers, and a
\* status, a title and a track title with an entity that does not exist.
ErrorGrammar ==
    [scripted |-> FALSE, unknown |-> FALSE, subs |-> FALSE,
     ids |-> {"1", "abc"}, statuses |-> {"Accepted", "&bad;"},
     children |-> {"title", "master_id", "tracklist", "labels", "videos"},
     track_children |-> {"title"},
     formats |-> {}, empty_formats |-> {},
     labels |-> {<<Attr("name", "abc"), Attr("catno", "7"), Attr("id", "abc")>>},
     videos |-> {<<Attr("src", "abc"), Attr("duration", "abc")>>},
     nested |-> {}, texts |-> {"7", "&bad;"},
     max_releases |-> 1, max_tags |-> MaxErrorTags]

\* Documents of one release with formats and with tracks as the dumps have
\* them: a track can have sub_tracks, whose children are tracks again.
NestGrammar ==
    [scripted |-> FALSE, unknown |-> FALSE, subs |-> FALSE,
     ids |-> {"1"}, statuses |-> {"Accepted"},
     children |-> {"tracklist", "formats"}, track_children |-> {"title", "sub_tracks"},
     formats |-> {<<Attr("name", "Vinyl"), Attr("qty", "1"), Attr("text", "LP")>>,
                  <<Attr("name", "LP")>>},
     empty_formats |-> {}, labels |-> {}, videos |-> {},
     nested |-> {}, texts |-> {"Intro", "A1"},
     max_releases |-> 1, max_tags |-> MaxNestTags]

\* One fixed document, given event by event.
ScriptGrammar ==
    [scripted |-> TRUE, unknown |-> FALSE, subs |-> FALSE, ids |-> {}, statuses |-> {},
     children |-> {}, track_children |-> {}, formats |-> {}, empty_formats |-> {},
     labels |-> {}, videos |-> {}, nested |-> {}, texts |-> {},
     max_releases |-> 0, max_tags |-> 0]

\* An element with one text.
TextElement(name, text) == <<Start(name, <<>>), Text(text), End(name)>>

\* The documents of the scenario of the specification: one release with
\* id 123 and status Accepted, the title Test Album, the genres Rock and Jazz
\* and one track (position A1, title Intro, duration 1:30), up to the closing
\* tag of the release.  The children of the release and of the track come in
\* any order.
ScenarioBlocks(track_order) ==
    LET child == <<TextElement("position", "A1"), TextElement("title", "Intro"),
                   TextElement("duration", "1:30")>>
    IN <<TextElement("title", "Test Album"),
         <<Start("genres", <<>>)>> \o TextElement("genre", "Rock")
             \o TextElement("genre", "Jazz") \o <<End("genres")>>,
         <<Start("tracklist", <<>>), Start("track", <<>>)>>
             \o child[track_order[1]] \o child[track_order[2]] \o child[track_order[3]]
             \o <<End("track"), End("tracklist")>> >>

ScenarioScripts ==
    {<<Start("releases", <<>>),
       Start("release", <<Attr("id", "123"), Attr("status", "Accepted")>>)>>
        \o ScenarioBlocks(t)[b[1]] \o ScenarioBlocks(t)[b[2]] \o ScenarioBlocks(t)[b[3]]
        \o <<End("release")>> :
            b \in Orders({1, 2, 3}), t \in Orders({1, 2, 3})}

\* ----------------------------------------------------------------- history
\* What the document has said so far, kept to state the properties of a run.

\* The release elements closed so far: current_release at each closing tag of
\* a release element below the root.
Closed(seen, e) ==
    IF e.kind = "End" /\ e.name = "release" /\ xml_open = <<"releases", "release">>
    THEN Append(seen, current_release)
    ELSE seen

\* The track elements in the tracklist of a release, in document order, each
\* with the id of its release, the last text of each of its children, and
\* whether a child of it has had a text.
InTrackChild ==
    /\ Len(xml_open) = 5
    /\ SubSeq(xml_open, 1, 4) = <<"releases", "release", "tracklist", "track">>
    /\ xml_open[5] \in {"title", "position", "duration"}

DocTracks(seen, e) ==
    CASE e.kind = "Start" /\ e.name = "track"
            /\ xml_open = <<"releases", "release", "tracklist">> ->
            Append(seen, [release_id |-> current_id, title |-> "", position |-> "",
                          duration |-> "", has_text |-> FALSE])
      [] e.kind = "Text" /\ InTrackChild /\ Unescape(e.text).ok ->
            [seen EXCEPT ![Len(seen)][xml_open[5]] = Unescape(e.text).val,
                         ![Len(seen)].has_text = TRUE]
      [] OTHER -> seen

\* The parser as it was before the opening tag of the outermost unknown
\* element; phase is "open" inside that element, "closed" right after its
\* closing tag and "none" otherwise.
AroundUnknown(a, e) ==
    CASE a.phase # "open" /\ e.kind = "Start" /\ e.name = "foo" ->
            [phase |-> "open", depth |-> Len(xml_open), self |-> Self]
      [] a.phase = "open" /\ e.kind = "End" /\ Len(xml_open) = a.depth + 1 ->
            [a EXCEPT !.phase = "closed"]
      [] a.phase = "closed" /\ ~(e.kind = "Start" /\ e.name = "foo") ->
            [a EXCEPT !.phase = "none"]
      [] OTHER -> a

\* The label, video and format tags of the document, in document order: each
\* tag named label directly in the labels of a release element, and so for
\* video and format, with the id of its release, its kind and its attributes.
SubElement(container) ==
    CASE container = "labels" -> "label"
      [] container = "videos" -> "video"
      [] container = "formats" -> "format"
      [] OTHER -> ""

DocSubs(seen, e) ==
    IF /\ grammar.subs
       /\ e.kind \in {"Start", "Empty"}
       /\ Len(xml_open) = 3 /\ SubSeq(xml_open, 1, 2) = <<"releases", "release">>
       /\ e.name = SubElement(xml_open[3])
    THEN Append(seen, [element |-> e.name, release_id |-> current_id,
                       kind |-> e.kind, attrs |-> e.attrs])
    ELSE seen

\* The texts of the genre elements in the genres, and of the style elements in
\* the styles, of the release element that is open or was open last, in
\* document order.
DocLists(seen, e) ==
    CASE e.kind = "Start" /\ e.name = "release" /\ xml_open = <<"releases">> ->
            [genres |-> <<>>, styles |-> <<>>]
      [] e.kind = "Text" /\ xml_open = <<"releases", "release", "genres", "genre">>
            /\ Unescape(e.text).ok ->
            [seen EXCEPT !.genres = Append(@, Unescape(e.text).val)]
      [] e.kind = "Text" /\ xml_open = <<"releases", "release", "styles", "style">>
            /\ Unescape(e.text).ok ->
            [seen EXCEPT !.styles = Append(@, Unescape(e.text).val)]
      [] OTHER -> seen

\* The track elements of the document and the keys of tracks they wrote to:
\* opened counts the opening tags of track so far, open has the numbers of
\* the track elements that are open, innermost last, and writer gives, for a
\* key of tracks, the number of the track element in whose title, position or
\* duration the parser first wrote to that key.
DocKeys(d, e) ==
    CASE e.kind = "Start" /\ e.name = "track" ->
            [d EXCEPT !.opened = @ + 1, !.open = Append(@, d.opened + 1)]
      [] e.kind = "End" /\ e.name = "track" /\ d.open # <<>> ->
            [d EXCEPT !.open = SubSeq(@, 1, Len(@) - 1)]
      [] e.kind = "Text" /\ state \in {"TrackTitle", "TrackPosition", "TrackDuration"}
            /\ d.open # <<>> /\ current_track_id \notin DOMAIN d.writer ->
            [d EXCEPT !.writer = [k \in DOMAIN @ \cup {current_track_id} |->
                                     IF k \in DOMAIN @ THEN @[k] ELSE d.open[Len(d.open)]]]
      [] OTHER -> d

\* ------------------------------------------------------------------ driver
\* The caller gives process one event after the other and stops at the first
\* error it returns.
Running == ret = "Ok"

InitWith(g, sizes, scripts) ==
    /\ ParserInit
    /\ batch_size \in sizes
    /\ calls = <<>>
    /\ db = NoRows
    /\ ret = "Ok"
    /\ ev = Other
    /\ xml_open = <<>>
    /\ xml_done = FALSE
    /\ xml_count = 0
    /\ closed = <<>>
    /\ call_at = <<>>
    /\ doc_tracks = <<>>
    /\ around_unknown = [phase |-> "none", depth |-> 0, self |-> Self]
    /\ doc_subs = <<>>
    /\ doc_lists = [genres |-> <<>>, styles |-> <<>>]
    /\ doc_keys = [opened |-> 0, open |-> <<>>, writer |-> <<>>]
    /\ grammar = g
    /\ script \in scripts

Init == InitWith(BatchGrammar, 1..MaxBatch, {<<>>})

InitRecords == InitWith(RecordGrammar, 1..MaxBatch, {<<>>})

\* One call of process, with the calls of write_releases it makes.
Process ==
    /\ Running
    /\ \E e \in NextEvents : \E o \in process(Self, e, batch_size) :
        /\ state' = o.self.state
        /\ releases' = o.self.releases
        /\ current_release' = o.self.current_release
        /\ current_id' = o.self.current_id
        /\ release_labels' = o.self.release_labels
        /\ current_video_id' = o.self.current_video_id
        /\ release_videos' = o.self.release_videos
        /\ current_track_id' = o.self.current_track_id
        /\ tracks' = o.self.tracks
        /\ current_format_id' = o.self.current_format_id
        /\ formats' = o.self.formats
        /\ pb' = o.self.pb
        /\ ret' = o.ret
        /\ calls' = calls \o o.written
        /\ db' = IF o.written = <<>> THEN db ELSE Commit(db, o.written[1])
        /\ ev' = e
        /\ xml_open' = Opened(xml_open, e)
        /\ xml_done' = (e.kind = "End" /\ Len(xml_open) = 1)
        /\ xml_count' = IF Counted(e) THEN xml_count + 1 ELSE xml_count
        /\ closed' = Closed(closed, e)
        /\ call_at' = call_at \o [i \in DOMAIN o.written |->
                                     [closed |-> Len(Closed(closed, e)),
                                      tracks |-> Len(doc_tracks),
                                      subs |-> Len(doc_subs)]]
        /\ doc_tracks' = DocTracks(doc_tracks, e)
        /\ around_unknown' = AroundUnknown(around_unknown, e)
        /\ doc_subs' = DocSubs(doc_subs, e)
        /\ doc_lists' = DocLists(doc_lists, e)
        /\ doc_keys' = DocKeys(doc_keys, e)
        /\ script' = IF script = <<>> THEN script ELSE Tail(script)
        /\ UNCHANGED <<batch_size, grammar>>

InitUnknown == InitWith(UnknownGrammar, {1}, {<<>>})

InitScenario == InitWith(ScriptGrammar, {1}, ScenarioScripts)

InitSubs == InitWith(SubGrammar, 1..MaxBatch, {<<>>})

InitLists == InitWith(ListGrammar, 1..MaxBatch, {<<>>})

InitStates == InitWith(StateGrammar, {1}, {<<>>})

InitEaten == InitWith(EatenGrammar, {1}, {<<>>})

InitErrors == InitWith(ErrorGrammar, {1}, {<<>>})

InitNest == InitWith(NestGrammar, {1}, {<<>>})

Next == Process

Spec == Init /\ [][Next]_vars

SpecRecords == InitRecords /\ [][Next]_vars

SpecUnknown == InitUnknown /\ [][Next]_vars

SpecScenario == InitScenario /\ [][Next]_vars

SpecSubs == InitSubs /\ [][Next]_vars

SpecLists == InitLists /\ [][Next]_vars

SpecStates == InitStates /\ [][Next]_vars

SpecEaten == InitEaten /\ [][Next]_vars

SpecErrors == InitErrors /\ [][Next]_vars

SpecNest == InitNest /\ [][Next]_vars

\* ================================================================ properties
\* The document is read to its end and no call of process failed.
Finished == xml_done /\ ret = "Ok"

\* The smallest integer that is at least n / b.
Ceil(n, b) == (n + b - 1) \div b

\* No two of the release elements closed so far have the same id.
DistinctIds == \A i, j \in DOMAIN closed : i # j => closed[i].id # closed[j].id

\* The release elements of the batch of call k: those closed after the call
\* before it and not after call k.
BatchOf(k) ==
    ((IF k = 1 THEN 0 ELSE call_at[k - 1].closed) + 1)..call_at[k].closed

\* The last step made a call of write_releases.
JustCalled == Len(calls') = Len(calls) + 1

LastCall == calls[Len(calls)]

\* C1 as stated: after a document of N release elements and the closing tag of
\* releases, write_releases has been called exactly ceil(N / B) times.
C1_CeilCalls == Finished => Len(calls) = Ceil(Len(closed), batch_size)

\* C1, amended: after a document of N release elements with pairwise distinct
\* ids and the closing tag of releases, write_releases has been called exactly
\* floor(N / B) + 1 times: once at every B-th release and once, with the
\* remainder or with no rows at all, at the closing tag of releases.
C1_FloorPlusOneCalls ==
    (Finished /\ DistinctIds) => Len(calls) = (Len(closed) \div batch_size) + 1

\* A finished document of three distinct releases with batch size 2: two calls.
C1_Witness ==
    /\ Finished /\ DistinctIds
    /\ Len(closed) = 3 /\ batch_size = 2 /\ Len(calls) = 2

\* C2: every call of write_releases receives at most batch_size Release rows,
\* and after process has returned the releases accumulator holds at most
\* batch_size records.
C2_BatchBounded ==
    /\ \A k \in DOMAIN calls : Len(calls[k].release) <= batch_size
    /\ MapLen(releases) <= batch_size

\* A call with exactly batch_size = 2 Release rows has been made.
C2_Witness ==
    /\ batch_size = 2
    /\ \E k \in DOMAIN calls : Len(calls[k].release) = 2

\* C3: a Release row of a call is the first release element of its id in the
\* batch of that call: when two elements of one batch share an id, the row has
\* the values of the first of them.
C3_FirstWins ==
    \A k \in DOMAIN calls : \A i \in DOMAIN calls[k].release :
        LET row == calls[k].release[i]
            same == {j \in BatchOf(k) : closed[j].id = row.id}
        IN /\ same # {}
           /\ row = closed[CHOOSE j \in same : \A j2 \in same : j <= j2]
           /\ \A i2 \in DOMAIN calls[k].release :
                  calls[k].release[i2].id = row.id => i2 = i

\* A call whose batch has two release elements of one id with different field
\* values; the row is the first of them.
C3_Witness ==
    \E k \in DOMAIN calls : \E i \in DOMAIN calls[k].release :
        \E j1, j2 \in BatchOf(k) :
            /\ j1 < j2
            /\ closed[j1].id = closed[j2].id
            /\ closed[j1] # closed[j2]
            /\ calls[k].release[i] = closed[j1]

\* C10: a text of master_id that is no number makes process return a
\* conversion error without calling write_releases, and no call of
\* write_releases follows the error.
C10_MasterIdError ==
    [][/\ (state = "MasterId" /\ ev'.kind = "Text" /\ ev'.text = "abc")
            => (ret' = "ConversionError" /\ calls' = calls)
       /\ (ret = "ConversionError" => calls' = calls)]_vars

\* The error has struck while a release closed before it waits in the batch.
C10_Witness ==
    /\ ret = "ConversionError" /\ state = "MasterId" /\ ev = Text("abc")
    /\ releases # EmptyMap
    /\ \A k \in DOMAIN calls : call_at[k].closed < Len(closed)

\* The values of a container, as a set.
Values(m) == {m[k] : k \in DOMAIN m}

\* The rows of a sequence, as a set.
Rows(rows) == {rows[i] : i \in DOMAIN rows}

\* The fields of a Track the document gives to a track element.
DocTrack(d) ==
    [position |-> d.position, title |-> d.title, duration |-> d.duration,
     release_id |-> d.release_id]

\* C4: the closing tag of releases, processed in the root state, calls
\* write_releases with every record accumulated since the last flush, however
\* few: the values of the five containers, which are the release elements
\* closed and the tracks with a text seen since the last call.
C4_FinalFlush ==
    [][(ev'.kind = "End" /\ ev'.name = "releases" /\ state = "Release") =>
        /\ JustCalled
        /\ LET c == calls'[Len(calls')]
               k == Len(calls')
               lo == IF k = 1 THEN 0 ELSE call_at[k - 1].closed
               tlo == IF k = 1 THEN 0 ELSE call_at[k - 1].tracks
           IN /\ Rows(c.release) = Values(releases)
              /\ Len(c.release) = MapLen(releases)
              /\ Rows(c.release_label) = Values(release_labels)
              /\ Len(c.release_label) = MapLen(release_labels)
              /\ Rows(c.release_video) = Values(release_videos)
              /\ Len(c.release_video) = MapLen(release_videos)
              /\ Rows(c.track) = Values(tracks)
              /\ Len(c.track) = MapLen(tracks)
              /\ Rows(c.format) = Values(formats)
              /\ Len(c.format) = MapLen(formats)
              /\ {c.release[i].id : i \in DOMAIN c.release}
                    = {closed[j].id : j \in (lo + 1)..Len(closed)}
              /\ Rows(c.track)
                    = {DocTrack(doc_tracks[j]) :
                          j \in {i \in (tlo + 1)..Len(doc_tracks) : doc_tracks[i].has_text}}
      ]_vars

\* The final flush has written one release and a track with batch size 2.
C4_Witness ==
    /\ Finished /\ batch_size = 2
    /\ Len(LastCall.release) = 1 /\ Len(LastCall.track) = 1

BatchEmpty ==
    /\ releases = EmptyMap /\ release_labels = EmptyMap /\ release_videos = EmptyMap
    /\ tracks = EmptyMap /\ formats = EmptyMap

\* C5 as stated: after every flush, at the batch size or at the end of
\* releases, the five containers are empty.
C5_EveryFlushClears ==
    [][(JustCalled /\ ret' = "Ok") => BatchEmpty']_vars

\* C5, amended: after every successful flush at the batch size the five
\* containers are empty; the flush at the closing tag of releases leaves the
\* five containers as they were.
C5_BatchFlushClears ==
    [][(JustCalled /\ ret' = "Ok") =>
        IF ev'.name = "release" THEN BatchEmpty'
        ELSE UNCHANGED <<releases, release_labels, release_videos, tracks, formats>>
      ]_vars

\* A flush at the batch size has just written a track and a format, and the
\* containers are empty.
C5_Witness ==
    /\ ret = "Ok" /\ ev = End("release") /\ calls # <<>>
    /\ call_at[Len(calls)].closed = Len(closed)
    /\ LastCall.track # <<>> /\ LastCall.format # <<>>
    /\ BatchEmpty

\* The track elements of the document that are closed.
ClosedTracks(open, seen) ==
    Len(seen) - (IF \E i \in DOMAIN open : open[i] = "track" THEN 1 ELSE 0)

OfRelease(rows, r) == LET Mine(t) == t.release_id = r IN SelectSeq(rows, Mine)

\* The Track rows the document gives the release with id r in tracks lo..hi:
\* its track elements that have a text, in document order.
DocTrackRows(lo, hi, r) ==
    LET Mine(d) == d.release_id = r /\ d.has_text
        mine == SelectSeq(SubSeq(doc_tracks, lo, hi), Mine)
    IN [i \in DOMAIN mine |-> DocTrack(mine[i])]

\* C7: in every call of write_releases the Track rows of a release are its
\* track elements in document order.
C7_TrackOrder ==
    \A k \in DOMAIN calls : \A j \in DOMAIN closed :
        OfRelease(calls[k].track, closed[j].id)
            = DocTrackRows((IF k = 1 THEN 0 ELSE call_at[k - 1].tracks) + 1,
                           call_at[k].tracks, closed[j].id)

\* A call has two different Track rows of one release.
C7_Witness ==
    \E k \in DOMAIN calls :
        /\ Len(calls[k].track) = 2
        /\ calls[k].track[1] # calls[k].track[2]
        /\ calls[k].track[1].release_id = calls[k].track[2].release_id

\* C8: when the closing tag of an unknown element under a recognized parent has
\* been processed, the state, the current release and the accumulated
\* sub-records are what they were before its opening tag.
C8_UnknownIsInert ==
    (around_unknown.phase = "closed" /\ ret = "Ok") =>
        /\ state = around_unknown.self.state
        /\ current_release = around_unknown.self.current_release
        /\ release_labels = around_unknown.self.release_labels
        /\ release_videos = around_unknown.self.release_videos
        /\ tracks = around_unknown.self.tracks
        /\ formats = around_unknown.self.formats

\* C9: after the scenario document with batch size 1, write_releases has been
\* called exactly once, with the Release row (123, Accepted, Test Album,
\* [Rock, Jazz]) and the Track row (123, Intro, A1, 1:30), and with no other
\* row.
C9_Scenario ==
    (grammar.scripted /\ script = <<>>) =>
        /\ Len(calls) = 1
        /\ calls[1].release =
              <<[id |-> 123, status |-> "Accepted", title |-> "Test Album",
                 country |-> "", released |-> "", notes |-> "",
                 genres |-> <<"Rock", "Jazz">>, styles |-> <<>>, master_id |-> 0,
                 data_quality |-> ""]>>
        /\ calls[1].track =
              <<[position |-> "A1", title |-> "Intro", duration |-> "1:30",
                 release_id |-> 123]>>
        /\ calls[1].release_label = <<>>
        /\ calls[1].release_video = <<>>
        /\ calls[1].format = <<>>
        /\ WriteOk(calls[1]) =>
              /\ db["release"] = <<<<123, "Accepted", "Test Album", "", "", "",
                                     <<"Rock", "Jazz">>, <<>>, 0, "">>>>
              /\ db["track"] = <<<<123, "Intro", "A1", "1:30">>>>

\* The scenario has been read to its end and its one call has succeeded.
C9_Witness ==
    /\ grammar.scripted /\ script = <<>>
    /\ ret = "Ok" /\ Len(calls) = 1 /\ WriteOk(calls[1])
    /\ ev = End("release")

\* The tags named element among the sub-record tags of the batch of call k:
\* the indices in doc_subs of those read after the call before it.
SubsOf(k, element) ==
    {j \in ((IF k = 1 THEN 0 ELSE call_at[k - 1].subs) + 1)..call_at[k].subs :
        doc_subs[j].element = element}

\* C11: every label tag in the labels of a release yields one ReleaseLabel
\* record with the id of that release: the ReleaseLabel rows of a call of
\* write_releases are as many as the label tags of its batch, and every label
\* tag has a row with the id of its release.
C11_OneRowPerLabel ==
    \A k \in DOMAIN calls :
        /\ Len(calls[k].release_label) = Cardinality(SubsOf(k, "label"))
        /\ \A j \in SubsOf(k, "label") :
              \E i \in DOMAIN calls[k].release_label :
                  calls[k].release_label[i].release_id = doc_subs[j].release_id

\* The numbers in S in ascending order.
Ascending(S) == CHOOSE o \in Orders(S) : \A i, j \in DOMAIN o : i < j => o[i] < o[j]

\* The value of the first attribute named key in attrs, "" when there is none.
Named(attrs, key) ==
    IF \E i \in DOMAIN attrs : attrs[i].key = key
    THEN attrs[CHOOSE i \in DOMAIN attrs :
                   attrs[i].key = key /\ \A j \in 1..(i - 1) : attrs[j].key # key].value
    ELSE ""

\* The records the document gives the batch of call k, in document order: the
\* first release element of each id, the first label tag of each label id,
\* every video tag, and every format element that has an opening tag.
DocReleaseRows(k) ==
    LET firsts == {j \in BatchOf(k) :
                      \A j2 \in BatchOf(k) : closed[j2].id = closed[j].id => j <= j2}
        o == Ascending(firsts)
    IN [i \in DOMAIN o |-> closed[o[i]]]

DocLabelRows(k) ==
    LET id(j) == Named(doc_subs[j].attrs, "id")
        firsts == {j \in SubsOf(k, "label") :
                      \A j2 \in SubsOf(k, "label") : id(j2) = id(j) => j <= j2}
        o == Ascending(firsts)
    IN [i \in DOMAIN o |->
           [release_id |-> doc_subs[o[i]].release_id,
            label |-> Named(doc_subs[o[i]].attrs, "name"),
            catno |-> Named(doc_subs[o[i]].attrs, "catno"),
            label_id |-> ParseI32(id(o[i])).val]]

DocVideoRows(k) ==
    LET o == Ascending(SubsOf(k, "video"))
    IN [i \in DOMAIN o |->
           [release_id |-> doc_subs[o[i]].release_id,
            duration |-> ParseI32(Named(doc_subs[o[i]].attrs, "duration")).val,
            src |-> Named(doc_subs[o[i]].attrs, "src"),
            title |-> ""]]

DocFormatRows(k) ==
    LET o == Ascending({j \in SubsOf(k, "format") : doc_subs[j].kind = "Start"})
    IN [i \in DOMAIN o |->
           [name |-> Named(doc_subs[o[i]].attrs, "name"),
            qty |-> Named(doc_subs[o[i]].attrs, "qty"),
            text |-> Named(doc_subs[o[i]].attrs, "text"),
            release_id |-> doc_subs[o[i]].release_id]]

\* rows has the records of expected, each as often, in some order.
SameRecords(rows, expected) ==
    /\ Len(rows) = Len(expected)
    /\ \E o \in Orders(DOMAIN rows) : \A i \in DOMAIN o : rows[o[i]] = expected[i]

\* C12 as stated: in every table write of a flush the rows are in the order in
\* which the records were inserted into the accumulator, the document order,
\* for the release table as for the tables of the sub-records.
C12_InsertionOrder ==
    \A k \in DOMAIN calls :
        /\ calls[k].release = DocReleaseRows(k)
        /\ calls[k].release_label = DocLabelRows(k)
        /\ calls[k].release_video = DocVideoRows(k)
        /\ calls[k].format = DocFormatRows(k)

\* C12, amended: the Format rows of a flush are in the order in which the
\* formats were inserted, the document order; the Release, ReleaseLabel and
\* ReleaseVideo rows are the records inserted, each once, in an order that is
\* not determined.
C12_OrderedWhereSorted ==
    \A k \in DOMAIN calls :
        /\ calls[k].format = DocFormatRows(k)
        /\ SameRecords(calls[k].release, DocReleaseRows(k))
        /\ SameRecords(calls[k].release_label, DocLabelRows(k))
        /\ SameRecords(calls[k].release_video, DocVideoRows(k))

\* A call has written two different Format rows in document order and two
\* Release rows with the later release element first.
C12_Witness ==
    \E k \in DOMAIN calls :
        /\ Len(calls[k].format) = 2 /\ calls[k].format[1] # calls[k].format[2]
        /\ calls[k].format = DocFormatRows(k)
        /\ Len(calls[k].release) = 2
        /\ calls[k].release[1] = DocReleaseRows(k)[2]
        /\ calls[k].release[2] = DocReleaseRows(k)[1]

\* C13: a flush writes and commits the tables one at a time in the order
\* release, release_label, release_video, track, format; when the write of a
\* table fails, the rows of the tables before it stay committed, no later
\* table is written, and write_releases returns an error, which process
\* returns.
C13_PartialCommitAndError ==
    [][JustCalled =>
        LET c == calls'[Len(calls')]
        IN /\ \A i \in DOMAIN Tables :
                 db'[Tables[i]] = IF i <= c.committed
                                  THEN db[Tables[i]] \o SqlRows(c, Tables[i])
                                  ELSE db[Tables[i]]
           /\ c.committed = Len(Tables) => (c.result = "Ok" /\ ret' = "Ok")
           /\ c.committed < Len(Tables) => (c.result = "Err" /\ ret' = "WriteError")
      ]_vars

\* C14: for a format tag in formats and a label tag in labels, an attribute
\* that is absent (name, qty or text of a format; name or catno of a label
\* whose id is a number) gives the empty string for its field, every attribute
\* that is present gives its value, and process returns Ok.
C14_AbsentAttributeIsEmpty ==
    [][/\ (state = "Formats" /\ ev'.kind = "Start" /\ ev'.name = "format") =>
            /\ ret' = "Ok"
            /\ current_format_id \in DOMAIN formats'
            /\ \A key \in {"name", "qty", "text"} :
                  formats'[current_format_id][key] = Named(ev'.attrs, key)
       /\ (/\ state = "Labels" /\ ev'.kind = "Empty" /\ ev'.name = "label"
           /\ ParseI32(Named(ev'.attrs, "id")).ok
           /\ ParseI32(Named(ev'.attrs, "id")).val \notin DOMAIN release_labels) =>
            LET id == ParseI32(Named(ev'.attrs, "id")).val
            IN /\ ret' = "Ok"
               /\ id \in DOMAIN release_labels'
               /\ release_labels'[id].label = Named(ev'.attrs, "name")
               /\ release_labels'[id].catno = Named(ev'.attrs, "catno")
      ]_vars

\* The containers and counters of the batch.
batch_vars ==
    <<releases, release_labels, release_videos, tracks, formats, current_video_id,
      current_track_id, current_format_id>>

\* C15: an opening tag of a release whose id is no number, a label tag whose
\* id is no number and a video tag whose duration is no number each make
\* process return a conversion error; no container and no counter changes, so
\* no release and no sub-record is accumulated for the tag, and write_releases
\* is not called.
C15_NumericParseOrFail ==
    [][((\/ /\ state = "Release" /\ ev'.kind = "Start" /\ ev'.name = "release"
             /\ ~ParseI32(Named(ev'.attrs, "id")).ok
          \/ /\ state = "Labels" /\ ev'.kind = "Empty" /\ ev'.name = "label"
             /\ Len(ev'.attrs) = 3 /\ ~ParseI32(Named(ev'.attrs, "id")).ok
          \/ /\ state = "Videos" /\ ev'.kind = "Start" /\ ev'.name = "video"
             /\ ~ParseI32(Named(ev'.attrs, "duration")).ok))
        => (/\ ret' = "ConversionError"
            /\ UNCHANGED batch_vars
            /\ UNCHANGED <<current_release, current_id, calls, db>>)
      ]_vars

\* A video tag whose duration is no number has failed after a video of the
\* same batch was stored.
C15_Witness ==
    /\ ret = "ConversionError" /\ state = "Videos"
    /\ ev.kind = "Start" /\ ev.name = "video" /\ Named(ev.attrs, "duration") = "abc"
    /\ release_videos # EmptyMap

\* C16: the genres and the styles of a release are the texts of its genre and
\* of its style elements in document order, each text at the end of the list
\* and equal texts as separate entries; the Release rows written have the
\* lists of their release element.
C16_ListsInDocumentOrder ==
    /\ ret = "Ok" =>
          /\ current_release.genres = doc_lists.genres
          /\ current_release.styles = doc_lists.styles
    /\ \A k \in DOMAIN calls : \A i \in DOMAIN calls[k].release :
          \E j \in BatchOf(k) : calls[k].release[i] = closed[j]

\* A Release row has three genres, the first and the third equal, and a style.
C16_Witness ==
    \E k \in DOMAIN calls : \E i \in DOMAIN calls[k].release :
        LET g == calls[k].release[i].genres
        IN /\ Len(g) = 3 /\ g[1] = g[3] /\ g[1] # g[2]
           /\ g = doc_lists.genres

\* C17: a closing tag of release that process handles with success advances
\* the progress counter by exactly one, whether or not the step flushes; no
\* other event and no failed call changes it; so the counter is the number of
\* closing tags of release handled with success.
C17_ProgressCountsReleases ==
    [][/\ pb' = pb + (IF ev'.kind = "End" /\ ev'.name = "release" /\ ret' = "Ok"
                      THEN 1 ELSE 0)
       /\ pb' = Len(closed') - (IF ret' # "Ok" /\ ev' = End("release") THEN 1 ELSE 0)
      ]_vars

\* Three releases are counted with batch size 2: one closing tag has flushed,
\* the one after it has not.
C17_Witness ==
    /\ pb = 3 /\ batch_size = 2 /\ ret = "Ok" /\ ev = End("release")
    /\ Len(calls) = 1 /\ call_at[1].closed = 2

\* The Format records the document gives the batch of call k when every format
\* tag counts, an opening tag and an empty-element tag alike.
DocFormatTagRows(k) ==
    LET o == Ascending(SubsOf(k, "format"))
    IN [i \in DOMAIN o |->
           [name |-> Named(doc_subs[o[i]].attrs, "name"),
            qty |-> Named(doc_subs[o[i]].attrs, "qty"),
            text |-> Named(doc_subs[o[i]].attrs, "text"),
            release_id |-> doc_subs[o[i]].release_id]]

\* C18: every format tag in the formats of a release, an opening tag with its
\* closing tag or an empty-element tag, yields exactly one Format row with the
\* id of the release and the name, qty and text of the tag, and the Format
\* rows of a flush are in document order.
C18_OneRowPerFormat ==
    \A k \in DOMAIN calls : calls[k].format = DocFormatTagRows(k)

\* The element of every state but the root state, and the state of the element
\* around it.
OwnElement(st) ==
    CASE st = "TrackList" -> "tracklist"
      [] st = "Track" -> "track"
      [] st = "TrackTitle" -> "title"
      [] st = "TrackPosition" -> "position"
      [] st = "TrackDuration" -> "duration"
      [] st = "Companies" -> "companies"
      [] st = "Identifiers" -> "identifiers"
      [] st = "Artists" -> "artists"
      [] st = "ExtraArtists" -> "extraartists"
      [] st = "Images" -> "images"
      [] st = "Formats" -> "formats"
      [] st = "Format" -> "format"
      [] st = "Title" -> "title"
      [] st = "Country" -> "country"
      [] st = "Released" -> "released"
      [] st = "Notes" -> "notes"
      [] st = "Genres" -> "genres"
      [] st = "Genre" -> "genre"
      [] st = "Styles" -> "styles"
      [] st = "Style" -> "style"
      [] st = "MasterId" -> "master_id"
      [] st = "DataQuality" -> "data_quality"
      [] st = "Labels" -> "labels"
      [] st = "Videos" -> "videos"

ParentState(st) ==
    CASE st = "Track" -> "TrackList"
      [] st \in {"TrackTitle", "TrackPosition", "TrackDuration"} -> "Track"
      [] st = "Format" -> "Formats"
      [] st = "Genre" -> "Genres"
      [] st = "Style" -> "Styles"
      [] OTHER -> "Release"

\* C19: in every state but the root state, a closing tag named as the element
\* of the state moves the state to the state of the element around it, and
\* any other closing tag leaves the state as it is; process returns Ok.
C19_ClosingTagReturnsToParent ==
    [][(state # "Release" /\ ev'.kind = "End") =>
        /\ ret' = "Ok"
        /\ state' = IF ev'.name = OwnElement(state) THEN ParentState(state) ELSE state
      ]_vars

\* The title of a track has had the closing tag of an unknown element inside
\* it and the state is still TrackTitle.
C19_Witness ==
    /\ state = "TrackTitle" /\ ev = End("foo") /\ ret = "Ok"
    /\ xml_open = <<"releases", "release", "tracklist", "track", "title">>

\* C20: the record stored in releases at the closing tag of a release is the
\* current release as it is then (when its id is not stored yet), and no later
\* event changes a stored record: it stays as it is until the flush that
\* writes it removes it.
C20_StoredRecordImmutable ==
    [][/\ \A k \in DOMAIN releases :
             IF k \in DOMAIN releases' THEN releases'[k] = releases[k]
             ELSE /\ JustCalled
                  /\ \E i \in DOMAIN calls'[Len(calls')].release :
                        calls'[Len(calls')].release[i] = releases[k]
       /\ (/\ state = "Release" /\ ev' = End("release") /\ ret' = "Ok"
           /\ current_id \notin DOMAIN releases) =>
             IF JustCalled
             THEN \E i \in DOMAIN calls'[Len(calls')].release :
                      calls'[Len(calls')].release[i] = current_release
             ELSE current_id \in DOMAIN releases' /\ releases'[current_id] = current_release
      ]_vars

\* A text has changed the title of the current release while releases holds a
\* record of the same id, closed before, with another title.
C20_Witness ==
    /\ ev.kind = "Text" /\ state = "Title" /\ ret = "Ok"
    /\ current_id \in DOMAIN releases
    /\ releases[current_id].title # current_release.title
    /\ releases[current_id] = closed[Len(closed)]

\* The state that skips the content of each container.
EatenState(elem) ==
    CASE elem = "images" -> "Images"
      [] elem = "artists" -> "Artists"
      [] elem = "extraartists" -> "ExtraArtists"
      [] elem = "identifiers" -> "Identifiers"
      [] elem = "companies" -> "Companies"

\* C21: while the state is Images, Artists, ExtraArtists, Identifiers or
\* Companies, every event but the closing tag named as that container leaves
\* the state, the current release, the counters and the batch containers as
\* they are, whatever the names of the elements inside; process returns Ok and
\* write_releases is not called.
C21_EatenIsInert ==
    [][\A elem \in EatenElements :
          (state = EatenState(elem) /\ ev' # End(elem)) =>
              /\ UNCHANGED parser_vars
              /\ ret' = "Ok" /\ calls' = calls
      ]_vars

\* The text of a title in a track in artists has been read in the state
\* Artists, and the release has a title from before.
C21_Witness ==
    /\ state = "Artists" /\ ev = Text("7") /\ ret = "Ok"
    /\ xml_open = <<"releases", "release", "artists", "track", "title">>
    /\ current_release.title = "7"

\* C22 as stated: whenever process returns a conversion error, the whole
\* parser is as it was before the event.
C22_ErrorLeavesParserUntouched ==
    [][ret' = "ConversionError" => UNCHANGED parser_vars]_vars

\* C22, amended: whenever process returns a conversion error, the state tag,
\* the counters, the progress counter and the containers releases,
\* release_labels, release_videos and formats are as they were before the
\* event and write_releases is not called.  current_id and current_release are
\* as before too, but for an opening tag of release whose id is a number and
\* whose status does not unescape: they are the id and a new, empty release of
\* that id.  tracks is as before, but for a text in the title, position or
\* duration of a track: the current track key has an entry, an empty track of
\* the current release when it had none.
C22_ErrorLeavesBatchUntouched ==
    [][ret' = "ConversionError" =>
        /\ UNCHANGED <<state, releases, release_labels, release_videos, formats,
                       current_video_id, current_track_id, current_format_id, pb>>
        /\ calls' = calls
        /\ IF /\ state = "Release" /\ ev'.kind = "Start" /\ ev'.name = "release"
              /\ ParseI32(Named(ev'.attrs, "id")).ok
           THEN /\ current_id' = ParseI32(Named(ev'.attrs, "id")).val
                /\ current_release' = Release_new(current_id')
           ELSE UNCHANGED <<current_id, current_release>>
        /\ IF state \in {"TrackTitle", "TrackPosition", "TrackDuration"}
           THEN tracks' = [k \in DOMAIN tracks \cup {current_track_id} |->
                              IF k \in DOMAIN tracks THEN tracks[k]
                              ELSE [position |-> "", title |-> "", duration |-> "",
                                    release_id |-> current_id]]
           ELSE UNCHANGED tracks
      ]_vars

\* The text of a track title has failed to unescape and has left an empty
\* track under the current track key.
C22_Witness ==
    /\ ret = "ConversionError" /\ state = "TrackTitle" /\ ev = Text("&bad;")
    /\ current_track_id \in DOMAIN tracks
    /\ tracks[current_track_id].title = "" /\ tracks[current_track_id].release_id = 1

\* C23: when write_releases returns an error at a flush at the batch size,
\* process returns that error; the state tag, the progress counter and the
\* containers of the sub-records are as before the event, and releases is as
\* before with the release that triggered the flush in it, so nothing has
\* been cleared.
C23_FailedFlushKeepsBatch ==
    [][(JustCalled /\ ev' = End("release") /\ calls'[Len(calls')].result = "Err") =>
        /\ ret' = "WriteError"
        /\ UNCHANGED <<state, pb, release_labels, release_videos, tracks, formats>>
        /\ DOMAIN releases' = DOMAIN releases \cup {current_id}
        /\ \A k \in DOMAIN releases : releases'[k] = releases[k]
        /\ current_id \notin DOMAIN releases => releases'[current_id] = current_release
        /\ MapLen(releases') >= batch_size
      ]_vars

\* A flush at batch size 2 has failed after the release table was committed;
\* both releases and a format are still in the containers.
C23_Witness ==
    /\ ret = "WriteError" /\ ev = End("release") /\ batch_size = 2
    /\ LastCall.result = "Err" /\ LastCall.committed = 1
    /\ MapLen(releases) = 2 /\ formats # EmptyMap
    /\ pb = 1

\* The places, call and row, at which the Release rows written so far have
\* the record r.
WrittenAt(r) ==
    {p \in UNION {{<<k, i>> : i \in DOMAIN calls[k].release} : k \in DOMAIN calls} :
        calls[p[1]].release[p[2]] = r}

\* C24: for a document of releases with pairwise distinct ids, no release is
\* written twice, and when the closing tag of releases has been processed and
\* no write has failed, every release element closed is a Release row of
\* exactly one call of write_releases.
C24_EachReleaseWrittenOnce ==
    DistinctIds =>
        /\ \A j \in DOMAIN closed : Cardinality(WrittenAt(closed[j])) <= 1
        /\ Finished => \A j \in DOMAIN closed : Cardinality(WrittenAt(closed[j])) = 1

\* Three releases of distinct ids are written with batch size 2: two at the
\* second closing tag and the third at the closing tag of releases.
C24_Witness ==
    /\ Finished /\ DistinctIds /\ batch_size = 2 /\ Len(closed) = 3
    /\ Len(calls) = 2 /\ Len(calls[1].release) = 2 /\ calls[2].release = <<closed[3]>>

\* The release ids of the sub-record rows of a call.
OwnersIn(call) ==
    {call.release_label[i].release_id : i \in DOMAIN call.release_label}
        \cup {call.release_video[i].release_id : i \in DOMAIN call.release_video}
        \cup {call.track[i].release_id : i \in DOMAIN call.track}
        \cup {call.format[i].release_id : i \in DOMAIN call.format}

\* C25: when labels, videos, tracklist and formats occur only inside a release
\* element, every ReleaseLabel, ReleaseVideo, Track and Format row of a call
\* of write_releases has the id of a Release row of the same call.
C25_SubRecordsWithOwner ==
    \A k \in DOMAIN calls :
        OwnersIn(calls[k]) \subseteq {calls[k].release[i].id : i \in DOMAIN calls[k].release}

\* A call has written two releases, a track of one and a label of the other.
C25_Witness ==
    \E k \in DOMAIN calls :
        /\ Len(calls[k].release) = 2
        /\ Len(calls[k].track) = 1 /\ Len(calls[k].release_label) = 1
        /\ calls[k].track[1].release_id # calls[k].release_label[1].release_id

\* C26: two different track elements never use the same key of tracks, and
\* two different format elements never use the same key of formats: a text in
\* the title, position or duration of a track is written to a key that no
\* other track element has written to, and the opening tag of a format is
\* stored under a key that has no entry.
C26_KeysAreNotShared ==
    [][/\ (/\ ev'.kind = "Text"
           /\ state \in {"TrackTitle", "TrackPosition", "TrackDuration"}
           /\ doc_keys.open # <<>>
           /\ current_track_id \in DOMAIN doc_keys.writer) =>
             doc_keys.writer[current_track_id] = doc_keys.open[Len(doc_keys.open)]
       /\ (state = "Formats" /\ ev'.kind = "Start" /\ ev'.name = "format") =>
             current_format_id \notin DOMAIN formats
      ]_vars

====
